---- MODULE Spec2Model ----
(***************************************************************************)
(* HNAP1Client (src/hnap1-client.js): the two-step login handshake, the    *)
(* per-request HNAP_AUTH signature with its timestamp, and the SOAP        *)
(* envelope codec, as a state machine of one client object used by a few   *)
(* async callers that interleave at awaits.                                *)
(***************************************************************************)
EXTENDS Integers, Sequences, FiniteSets, TLC

\* ------------------------------------------------------------------ bounds
\* Operation invocations (public method calls) made on the client.
MaxCalls == 2
\* Async callers that may have an operation in flight at the same time.
MaxTasks == 2
\* Milliseconds the clock advances.
MaxTicks == 1
\* Invocations of the five data operations among the MaxCalls.
MaxData == 1
\* Calls of getUniqueTimestamp made one after the other (SpecStamp).
MaxStamps == 6
\* Elements under the root of a response document (SpecParse).
MaxKids == 2
\* Parameters of one request (SpecCodec).
MaxParams == 2

Tasks == 1..MaxTasks

\* ------------------------------------------------------- JavaScript values
\* A string is a sequence of tokens: [c |-> text] is literal text, and
\* [k, m, up] is the 32 hex characters of a keyed digest (see hex_hmac_md5).
Null == [t |-> "null"]
Undefined == [t |-> "undefined"]
Str(toks) == [t |-> "string", s |-> toks]
Lit(txt) == IF txt = "" THEN Str(<< >>) ELSE Str(<< [c |-> txt] >>)
TypeError == [t |-> "throw", name |-> "TypeError"]
Error(msg) == [t |-> "throw", name |-> "Error", message |-> msg]
Returns == [t |-> "return", name |-> "none"]

IsString(v) == v.t = "string"
IsThrow(v) == v.t = "throw"

\* if (v) ... : null, undefined and "" are falsy; every other string and
\* every object is truthy.
Truthy(v) ==
    CASE v.t = "string" -> v.s # << >>
      [] v.t = "object" -> TRUE
      [] v.t = "array" -> TRUE
      [] OTHER -> FALSE

\* String(v), as applied by `+` and by template literals.
ToStr(v) ==
    CASE v.t = "string" -> v.s
      [] v.t = "null" -> << [c |-> "null"] >>
      [] v.t = "undefined" -> << [c |-> "undefined"] >>
      [] OTHER -> << [c |-> "[object Object]"] >>

\* a + b on operands of which at least one is a string.
Plus(a, b) == Str(ToStr(a) \o ToStr(b))

\* String.prototype.toUpperCase on a digest: its hex letters a-f become A-F.
toUpperCase(v) ==
    Str([i \in DOMAIN v.s |->
            IF "up" \in DOMAIN v.s[i] THEN [v.s[i] EXCEPT !.up = TRUE] ELSE v.s[i]])

\* ------------------------------------------------------------- the digest
\* require('./md5').hex_hmac_md5(key, data): the keyed hash of message
\* `data` under `key`, as 32 lowercase hex characters.  The digest is kept
\* symbolic: two digests are equal exactly when key and message are.  The
\* primitive reads the characters of both arguments, so an argument that is
\* null or undefined raises TypeError.
hex_hmac_md5(key, data) ==
    IF IsString(key) /\ IsString(data)
    THEN Str(<< [k |-> key.s, m |-> data.s, up |-> FALSE] >>)
    ELSE TypeError

\* ------------------------------------------------------------- timestamps
\* Millisecond counts exceed 32 bits, so a count n is kept as
\* [hi |-> n \div 10^6, lo |-> n % 10^6].
Ms(hi, lo) == [hi |-> hi, lo |-> lo]

\* n % 2000000000000
ModTs(n) == Ms(n.hi % 2000000, n.lo)

\* n + 1
Inc(n) == IF n.lo = 999999 THEN Ms(n.hi + 1, 0) ELSE Ms(n.hi, n.lo + 1)

\* n + k
RECURSIVE Add(_, _)
Add(n, k) == IF k = 0 THEN n ELSE Add(Inc(n), k - 1)

\* a < b
Less(a, b) == a.hi < b.hi \/ (a.hi = b.hi /\ a.lo < b.lo)

RECURSIVE Digits(_)
Digits(n) ==
    IF n < 10
    THEN << [c |-> ToString(n)] >>
    ELSE Digits(n \div 10) \o << [c |-> ToString(n % 10)] >>

RECURSIVE Pad(_, _)
Pad(toks, width) == IF Len(toks) >= width THEN toks ELSE Pad(<< [c |-> "0"] >> \o toks, width)

\* Number.prototype.toString: the decimal digits of n.
NumToString(n) ==
    IF n.hi = 0 THEN Str(Digits(n.lo)) ELSE Str(Digits(n.hi) \o Pad(Digits(n.lo), 6))

\* Seeded fault: the timestamp is returned as read, equal to the last or not.
getUniqueTimestamp_NoIncrement(now, compare) ==
    [compareTimeStamp |-> ModTs(now), returned |-> NumToString(ModTs(now))]

\* getUniqueTimestamp with Date.now() = now and this.compareTimeStamp =
\* compare: the value returned and the value stored.
getUniqueTimestamp(now, compare) ==
    LET timestamp == ModTs(now)
        unique == IF compare = timestamp THEN Inc(timestamp) ELSE timestamp
    IN  [compareTimeStamp |-> unique, returned |-> NumToString(unique)]

\* ----------------------------------------------------------- seeded faults
\* generatePrivateKey with the arguments of hex_hmac_md5 exchanged.
generatePrivateKey_Exchanged(publicKey, password, challenge) ==
    LET h == hex_hmac_md5(challenge, Plus(publicKey, password))
    IN  IF IsThrow(h) THEN h ELSE toUpperCase(h)

\* generateLoginPassword with the arguments of hex_hmac_md5 exchanged.
generateLoginPassword_Exchanged(privateKey, challenge) ==
    LET h == hex_hmac_md5(challenge, privateKey)
    IN  IF IsThrow(h) THEN h ELSE toUpperCase(h)

\* generateHnapAuth signing the action before the timestamp.
generateHnapAuth_ActionFirst(soapAction, privateKey, now, compare) ==
    LET stamp == getUniqueTimestamp(now, compare)
        timestamp == stamp.returned
        auth == toUpperCase(hex_hmac_md5(privateKey, Plus(soapAction, timestamp)))
    IN  [compareTimeStamp |-> stamp.compareTimeStamp,
         timestamp |-> timestamp,
         value |-> Str(auth.s \o << [c |-> " "] >> \o timestamp.s)]

\* ------------------------------------------------------------ derivations
\* hex_hmac_md5(this.publicKey + this.password, this.challenge).toUpperCase()
generatePrivateKey(publicKey, password, challenge) ==
    LET h == hex_hmac_md5(Plus(publicKey, password), challenge)
    IN  IF IsThrow(h) THEN h ELSE toUpperCase(h)

\* hex_hmac_md5(this.privateKey, this.challenge).toUpperCase()
generateLoginPassword(privateKey, challenge) ==
    LET h == hex_hmac_md5(privateKey, challenge)
    IN  IF IsThrow(h) THEN h ELSE toUpperCase(h)

\* generateHnapAuth: the header value and the timestamp stored.
generateHnapAuth(soapAction, privateKey, now, compare) ==
    LET stamp == getUniqueTimestamp(now, compare)
        timestamp == stamp.returned
        auth == toUpperCase(hex_hmac_md5(privateKey, Plus(timestamp, soapAction)))
    IN  [compareTimeStamp |-> stamp.compareTimeStamp,
         timestamp |-> timestamp,
         value |-> Str(auth.s \o << [c |-> " "] >> \o timestamp.s)]

\* -------------------------------------------------------------- XML trees
\* An element: its name split at the colon into prefix and local part, its
\* attribute names, its child elements in document order and its text.
El(prefix, local, attrs, kids, text) ==
    [prefix |-> prefix, local |-> local, attrs |-> attrs, kids |-> kids, text |-> text]

\* <key>text</key>
Leaf(key, text) == El("", key, << >>, << >>, text)

\* A JavaScript object: its keys in insertion order and their values.
Object(keys, vals) == [t |-> "object", keys |-> keys, vals |-> vals]

\* obj[key]; a missing property, or a property of a string, is undefined.
Get(obj, key) ==
    IF obj.t = "object" /\ key \in DOMAIN obj.vals THEN obj.vals[key] ELSE Undefined

\* Seeded fault: the parameters are written last to first.
createSOAP_Reversed(action, params) ==
    El("soap", "Envelope", << "xmlns:xsi", "xmlns:xsd", "xmlns:soap" >>,
       << El("soap", "Body", << >>,
             << El("", action, << "xmlns" >>,
                   [i \in DOMAIN params |->
                       Leaf(params[Len(params) + 1 - i][1],
                            ToStr(params[Len(params) + 1 - i][2]))],
                   << >>) >>,
             << >>) >>,
       << >>)

\* createSOAP(action, params); params is Object.entries(params), the
\* <<key, value>> pairs in insertion order, each value put in by a template.
createSOAP(action, params) ==
    El("soap", "Envelope", << "xmlns:xsi", "xmlns:xsd", "xmlns:soap" >>,
       << El("soap", "Body", << >>,
             << El("", action, << "xmlns" >>,
                   [i \in DOMAIN params |-> Leaf(params[i][1], ToStr(params[i][2]))],
                   << >>) >>,
             << >>) >>,
       << >>)

\* xml2js.processors.stripPrefix
stripPrefix(el) == el.local

RECURSIVE Uniq(_)
Uniq(seq) ==
    IF seq = << >>
    THEN << >>
    ELSE LET init == Uniq(SubSeq(seq, 1, Len(seq) - 1))
             last == seq[Len(seq)]
         IN  IF \E i \in DOMAIN init : init[i] = last THEN init ELSE Append(init, last)

\* xml2js with explicitArray: false, ignoreAttrs: true and the prefix
\* stripped from tag names: an element without children is its text ('' when
\* it has none); an element with children is an object with one key per
\* child name, holding the child's value, or the array of the values when
\* the name repeats.
RECURSIVE Convert(_)
Convert(el) ==
    IF el.kids = << >>
    THEN Str(el.text)
    ELSE LET names == [i \in DOMAIN el.kids |-> stripPrefix(el.kids[i])]
             keys == Uniq(names)
             same(key) == SelectSeq(el.kids, LAMBDA kid : stripPrefix(kid) = key)
         IN  Object(keys,
                    [key \in {keys[i] : i \in DOMAIN keys} |->
                        IF Len(same(key)) = 1
                        THEN Convert(same(key)[1])
                        ELSE [t |-> "array",
                              items |-> [i \in DOMAIN same(key) |-> Convert(same(key)[i])]]])

\* parser.parseStringPromise(xmlString): text that is no well-formed
\* document rejects, a document resolves to { <root name>: <root value> }.
parseString(xmlString) ==
    IF ~xmlString.wellFormed
    THEN Error(<< "Non-whitespace before first tag." >>)
    ELSE Object(<< stripPrefix(xmlString.root) >>,
                [key \in {stripPrefix(xmlString.root)} |-> Convert(xmlString.root)])

\* Object.keys(body)[0] and body[that key], for a truthy body.
FirstEntry(body) ==
    CASE body.t = "object" -> body.vals[body.keys[1]]
      [] body.t = "array" -> body.items[1]
      [] OTHER -> Str(<< [charAt |-> 0, of |-> body.s] >>)

\* Seeded fault: an envelope without a body is returned as it is.
parseXmlResponse_EnvelopeReturned(xmlString) ==
    LET result == parseString(xmlString)
        envelope == Get(result, "Envelope")
    IN  IF IsThrow(result)
        THEN Error(<< "XML parsing failed: " >> \o result.message)
        ELSE IF ~Truthy(envelope)
        THEN Error(<< "XML parsing failed: ",
                      "Invalid SOAP response: Envelope or Body not found" >>)
        ELSE IF ~Truthy(Get(envelope, "Body"))
        THEN envelope
        ELSE FirstEntry(Get(envelope, "Body"))

\* parseXmlResponse(xmlString): the value returned, or the Error thrown.
parseXmlResponse(xmlString) ==
    LET result == parseString(xmlString)
        envelope == Get(result, "Envelope")
    IN  IF IsThrow(result)
        THEN Error(<< "XML parsing failed: " >> \o result.message)
        ELSE IF ~Truthy(envelope) \/ ~Truthy(Get(envelope, "Body"))
        THEN Error(<< "XML parsing failed: ",
                      "Invalid SOAP response: Envelope or Body not found" >>)
        ELSE FirstEntry(Get(envelope, "Body"))

\* ------------------------------------------------------------ the client
VARIABLES
    privateKey,         \* this.privateKey
    cookie,             \* this.cookie
    publicKey,          \* this.publicKey
    challenge,          \* this.challenge
    compareTimeStamp,   \* this.compareTimeStamp
    now,                \* Date.now() when the clock was last read
    ticks,              \* milliseconds elapsed since construction
    tasks,              \* per caller: where its operation is suspended, the
                        \* POSTs it has made, its request at the transport and,
                        \* between the two steps of login(), which answer its
                        \* requestLoginChallenge received
    calls,              \* operations invoked so far
    dataCalls,          \* data operations invoked so far
    done,               \* the method invocation that ended in the last step
    stamps,             \* the value getUniqueTimestamp returned last, if any
    chalLast,           \* how the last requestLoginChallenge ended
    loginOk,            \* some performLogin has returned normally
    keySets,            \* assignments to this.privateKey since the last
                        \* requestLoginChallenge that returned normally
    codec               \* an envelope under test: what was built and parsed

vars ==
    << privateKey, cookie, publicKey, challenge, compareTimeStamp, now, ticks,
       tasks, calls, dataCalls, done, stamps, chalLast, loginOk, keySets, codec >>

\* new HNAP1Client('192.168.0.1', 'Admin', <password>)
routerIP == Lit("192.168.0.1")
username == Lit("Admin")
password == Lit("secret")
baseUrl == Str(<< [c |-> "http://"] >> \o ToStr(routerIP) \o << [c |-> "/HNAP1/"] >>)

\* Date.now() at construction: 2026-11-05T00:00:00Z.
ClockStart == Ms(1793836, 800000)

\* Seeded fault: makeHNAPRequest signing only requests that carry a cookie.
makeHNAPRequest_SignsWithCookie(action, body, pk, ck, clock, compare) ==
    LET soapAction ==
            Str(<< [c |-> "\"http://purenetworks.com/HNAP1/"], [c |-> action], [c |-> "\""] >>)
        auth == generateHnapAuth(soapAction, pk, clock, compare)
        h0 == ("Content-Type" :> Lit("text/xml; charset=utf-8")) @@ ("SOAPAction" :> soapAction)
        h1 == IF Truthy(pk) /\ Truthy(ck) THEN ("HNAP_AUTH" :> auth.value) @@ h0 ELSE h0
        h2 == IF Truthy(ck) THEN ("Cookie" :> Str(<< [c |-> "uid="] >> \o ToStr(ck))) @@ h1 ELSE h1
    IN  [url |-> baseUrl, body |-> body, headers |-> h2,
         stamps |-> IF Truthy(pk) THEN << auth.timestamp >> ELSE << >>,
         compareTimeStamp |-> IF Truthy(pk) THEN auth.compareTimeStamp ELSE compare]

\* Seeded fault: the SOAPAction header is sent without its quotes.
makeHNAPRequest_HeaderUnquoted(action, body, pk, ck, clock, compare) ==
    LET soapAction ==
            Str(<< [c |-> "\"http://purenetworks.com/HNAP1/"], [c |-> action], [c |-> "\""] >>)
        auth == generateHnapAuth(soapAction, pk, clock, compare)
        h0 == ("Content-Type" :> Lit("text/xml; charset=utf-8"))
              @@ ("SOAPAction" :> Str(<< [c |-> "http://purenetworks.com/HNAP1/"],
                                         [c |-> action] >>))
        h1 == IF Truthy(pk) THEN ("HNAP_AUTH" :> auth.value) @@ h0 ELSE h0
        h2 == IF Truthy(ck) THEN ("Cookie" :> Str(<< [c |-> "uid="] >> \o ToStr(ck))) @@ h1 ELSE h1
    IN  [url |-> baseUrl, body |-> body, headers |-> h2,
         stamps |-> IF Truthy(pk) THEN << auth.timestamp >> ELSE << >>,
         compareTimeStamp |-> IF Truthy(pk) THEN auth.compareTimeStamp ELSE compare]

\* Seeded fault: a timestamp is generated for every request, signed or not.
makeHNAPRequest_AlwaysStamps(action, body, pk, ck, clock, compare) ==
    LET soapAction ==
            Str(<< [c |-> "\"http://purenetworks.com/HNAP1/"], [c |-> action], [c |-> "\""] >>)
        stamp == getUniqueTimestamp(clock, compare)
        auth == generateHnapAuth(soapAction, pk, clock, compare)
        h0 == ("Content-Type" :> Lit("text/xml; charset=utf-8")) @@ ("SOAPAction" :> soapAction)
        h1 == IF Truthy(pk) THEN ("HNAP_AUTH" :> auth.value) @@ h0 ELSE h0
        h2 == IF Truthy(ck) THEN ("Cookie" :> Str(<< [c |-> "uid="] >> \o ToStr(ck))) @@ h1 ELSE h1
    IN  [url |-> baseUrl, body |-> body, headers |-> h2,
         stamps |-> << stamp.returned >>,
         compareTimeStamp |-> stamp.compareTimeStamp]

\* makeHNAPRequest(action, body) up to the call of axios.post, with
\* this.privateKey = pk, this.cookie = ck: the request handed to the
\* transport and the timestamp stored.
makeHNAPRequest(action, body, pk, ck, clock, compare) ==
    LET soapAction ==
            Str(<< [c |-> "\"http://purenetworks.com/HNAP1/"], [c |-> action], [c |-> "\""] >>)
        auth == generateHnapAuth(soapAction, pk, clock, compare)
        h0 == ("Content-Type" :> Lit("text/xml; charset=utf-8")) @@ ("SOAPAction" :> soapAction)
        h1 == IF Truthy(pk) THEN ("HNAP_AUTH" :> auth.value) @@ h0 ELSE h0
        h2 == IF Truthy(ck) THEN ("Cookie" :> Str(<< [c |-> "uid="] >> \o ToStr(ck))) @@ h1 ELSE h1
    IN  [url |-> baseUrl, body |-> body, headers |-> h2,
         stamps |-> IF Truthy(pk) THEN << auth.timestamp >> ELSE << >>,
         compareTimeStamp |-> IF Truthy(pk) THEN auth.compareTimeStamp ELSE compare]

\* What the transport can answer: a failure (no connection, a status other
\* than 2xx), or response data.
NetError == [kind |-> "error", message |-> << "connect ECONNREFUSED" >>]
NotXml == [kind |-> "data", t |-> "xml", wellFormed |-> FALSE]
Document(root) == [kind |-> "data", t |-> "xml", wellFormed |-> TRUE, root |-> root]

SoapResponse(name, fields) ==
    Document(El("soap", "Envelope", << "xmlns:soap" >>,
                << El("soap", "Body", << >>,
                      << El("", name, << "xmlns" >>, fields, << >>) >>,
                      << >>) >>,
                << >>))

\* The router's n-th nonce for a field.
Nonce(name, n) == << [c |-> name], [c |-> ToString(n)] >>

\* A field of the challenge response that is there, there but empty, or not there.
Field(name, how, n) ==
    CASE how = "value" -> << Leaf(name, Nonce(name, n)) >>
      [] how = "empty" -> << Leaf(name, << >>) >>
      [] OTHER -> << >>

ChallengeResponse(hc, hk, hp, n) ==
    SoapResponse("LoginResponse",
                 << Leaf("LoginResult", << [c |-> "OK"] >>) >>
                 \o Field("Challenge", hc, n) \o Field("Cookie", hk, n)
                 \o Field("PublicKey", hp, n))

\* The answers the transport gives in the model, whatever the request: the
\* router, or whoever answers in its place, is free to send any of them.
Answers ==
    << NetError, NotXml,
       Document(El("", "foo", << >>, << >>, << >>)),
       Document(El("soap", "Envelope", << "xmlns:soap" >>,
                   << El("soap", "Header", << >>, << >>, << >>) >>, << >>)),
       SoapResponse("LoginResponse", << Leaf("LoginResult", << [c |-> "success"] >>) >>),
       SoapResponse("LoginResponse", << Leaf("LoginResult", << [c |-> "failed"] >>) >>),
       SoapResponse("GetDeviceSettingsResponse",
                    << Leaf("GetDeviceSettingsResult", << [c |-> "OK"] >>),
                       Leaf("DeviceName", << [c |-> "DIR-882"] >>) >>),
       ChallengeResponse("value", "value", "value", 1),
       ChallengeResponse("value", "value", "value", 2),
       ChallengeResponse("empty", "value", "value", 1),
       ChallengeResponse("value", "empty", "value", 1),
       ChallengeResponse("value", "value", "missing", 1) >>

\* An answer is named by its place in Answers.
Responses == DOMAIN Answers

Radios == { "RADIO_2.4GHz", "RADIO_5GHz" }

NoRequest == [action |-> "none"]
NoneDone == [call |-> "none", method |-> "none"]
Idle == [pc |-> "idle", call |-> "none", posts |-> 0, request |-> NoRequest, answer |-> 0]
NoCodec == [action |-> "none"]

Init ==
    /\ privateKey = Null
    /\ cookie = Null
    /\ publicKey = Null
    /\ challenge = Null
    /\ compareTimeStamp = Ms(0, 0)
    /\ now = ClockStart
    /\ ticks = 0
    /\ tasks = [t \in Tasks |-> Idle]
    /\ calls = 0
    /\ dataCalls = 0
    /\ done = NoneDone
    /\ stamps = << >>
    /\ chalLast = "none"
    /\ loginOk = FALSE
    /\ keySets = 0
    /\ codec = NoCodec

\* --------------------------------------------------------------- helpers
\* A caller invokes an operation when it has none in flight; callers are
\* interchangeable, so the first idle one makes the call.
Invoke(t) ==
    /\ tasks[t].pc = "idle"
    /\ \A u \in Tasks : u < t => tasks[u].pc # "idle"
    /\ calls < MaxCalls
    /\ calls' = calls + 1

\* The milliseconds that may have passed since the clock was last read.
Waits == 0..(MaxTicks - ticks)

\* Date.now() is read `wait` milliseconds after the last reading.
ReadClock(wait) ==
    /\ now' = Add(now, wait)
    /\ ticks' = ticks + wait

\* Seeded fault: the request is handed to the transport twice.
Transmit_Twice(t, call, pc, action, params, pk, wait) ==
    LET req == makeHNAPRequest(action, createSOAP(action, params), pk, cookie,
                               Add(now, wait), compareTimeStamp)
    IN  /\ IF req.stamps # << >> THEN ReadClock(wait) ELSE wait = 0 /\ UNCHANGED << now, ticks >>
        /\ compareTimeStamp' = req.compareTimeStamp
        /\ stamps' = IF req.stamps # << >> THEN req.stamps ELSE stamps
        /\ tasks' = [tasks EXCEPT ![t] =
                        [pc |-> pc, call |-> call, posts |-> tasks[t].posts + 2,
                         request |-> [action |-> action, url |-> req.url,
                                      body |-> req.body, headers |-> req.headers],
                         answer |-> 0]]

\* Seeded fault: the method suspends between makeHNAPRequest's timestamp and
\* the call of axios.post, the request not yet handed over.
Transmit_Deferred(t, call, pc, action, params, pk, wait) ==
    LET req == makeHNAPRequest(action, createSOAP(action, params), pk, cookie,
                               Add(now, wait), compareTimeStamp)
    IN  /\ IF req.stamps # << >> THEN ReadClock(wait) ELSE wait = 0 /\ UNCHANGED << now, ticks >>
        /\ compareTimeStamp' = req.compareTimeStamp
        /\ stamps' = IF req.stamps # << >> THEN req.stamps ELSE stamps
        /\ tasks' = [tasks EXCEPT ![t] =
                        [pc |-> pc, call |-> call, posts |-> tasks[t].posts,
                         request |-> [action |-> action, url |-> req.url,
                                      body |-> req.body, headers |-> req.headers],
                         answer |-> 0]]

\* The run of a method from building its envelope through makeHNAPRequest
\* to the call of axios.post, where it suspends at `pc`.  The clock is read
\* only when a timestamp is generated.
Transmit(t, call, pc, action, params, pk, wait) ==
    \E req \in { makeHNAPRequest(action, createSOAP(action, params), pk, cookie,
                                 Add(now, wait), compareTimeStamp) } :
        /\ IF req.stamps # << >> THEN ReadClock(wait) ELSE wait = 0 /\ UNCHANGED << now, ticks >>
        /\ compareTimeStamp' = req.compareTimeStamp
        /\ stamps' = IF req.stamps # << >> THEN req.stamps ELSE stamps
        /\ tasks' = [tasks EXCEPT ![t] =
                        [pc |-> pc, call |-> call, posts |-> tasks[t].posts + 1,
                         request |-> [action |-> action, url |-> req.url,
                                      body |-> req.body, headers |-> req.headers],
                         answer |-> 0]]

\* A method invocation ends, normally or by throwing, and with it the
\* operation of the caller.
Finish(t, call, method, outcome, error) ==
    /\ done' = [call |-> call, method |-> method, outcome |-> outcome,
                error |-> error.name, posts |-> tasks[t].posts, ended |-> TRUE]
    /\ tasks' = [tasks EXCEPT ![t] = Idle]

\* await axios.post(...) in makeHNAPRequest: response.data, or the Error
\* thrown for a transport failure.
AwaitPost(resp) ==
    IF resp.kind = "error"
    THEN Error(<< "HNAP request failed: " >> \o resp.message)
    ELSE resp

\* await this.makeHNAPRequest(...) followed by await this.parseXmlResponse(...)
Await(resp) ==
    LET response == AwaitPost(resp)
    IN  IF IsThrow(response) THEN response ELSE parseXmlResponse(response)

\* Await, tabulated over the answers of the transport.
Awaited == [resp \in Responses |-> Await(Answers[resp])]

\* ------------------------------------------------------------- operations
\* Seeded fault: the check of the challenge response leaves out the cookie.
ChallengeFailed_CookieUnchecked(c, k, p) == ~Truthy(c) \/ ~Truthy(p)

\* if (!this.challenge || !this.cookie || !this.publicKey)
ChallengeFailed(c, k, p) == ~Truthy(c) \/ ~Truthy(k) \/ ~Truthy(p)

\* requestLoginChallenge up to its first await.
RequestChallenge(t, call, wait) ==
    /\ Transmit(t, call, "awaitChallenge", "Login",
                << << "Action", Lit("request") >>, << "Username", username >>,
                   << "LoginPassword", Lit("") >>, << "Captcha", Lit("") >> >>,
                privateKey, wait)
    /\ done' = NoneDone
    /\ UNCHANGED << privateKey, cookie, publicKey, challenge, dataCalls, chalLast, loginOk,
                    keySets, codec >>

requestLoginChallenge(t, wait) ==
    /\ Invoke(t)
    /\ RequestChallenge(t, "requestLoginChallenge", wait)

\* login() up to the first await of the requestLoginChallenge it calls.
login(t, wait) ==
    /\ Invoke(t)
    /\ RequestChallenge(t, "login", wait)

\* requestLoginChallenge resumes with the transport's answer.
requestLoginChallengeResume(t, resp) ==
    /\ tasks[t].pc = "awaitChallenge"
    /\ LET result == Awaited[resp]
           failed == ChallengeFailed(Get(result, "Challenge"), Get(result, "Cookie"),
                                     Get(result, "PublicKey"))
       IN  IF IsThrow(result)
           THEN /\ UNCHANGED << challenge, cookie, publicKey, keySets >>
                /\ chalLast' = "threw"
                /\ Finish(t, tasks[t].call, "requestLoginChallenge", "error", result)
           ELSE /\ challenge' = Get(result, "Challenge")
                /\ cookie' = Get(result, "Cookie")
                /\ publicKey' = Get(result, "PublicKey")
                /\ IF failed
                   THEN /\ chalLast' = "threw"
                        /\ UNCHANGED keySets
                        /\ Finish(t, tasks[t].call, "requestLoginChallenge", "error",
                                  Error(<< "Login challenge request failed" >>))
                   ELSE /\ chalLast' = "ok"
                        /\ keySets' = 0
                        /\ IF tasks[t].call = "login"
                           THEN /\ tasks' = [tasks EXCEPT ![t] =
                                                [@ EXCEPT !.pc = "challengeDone",
                                                          !.request = NoRequest,
                                                          !.answer = resp]]
                                /\ done' = [call |-> "login",
                                            method |-> "requestLoginChallenge",
                                            outcome |-> "ok", error |-> "none",
                                            posts |-> tasks[t].posts, ended |-> FALSE]
                           ELSE Finish(t, tasks[t].call, "requestLoginChallenge", "ok",
                                       Returns)
    /\ UNCHANGED << privateKey, compareTimeStamp, now, ticks, calls, dataCalls, stamps, loginOk,
                    codec >>

\* performLogin up to its first await; it ends at once when deriving the
\* key throws.
PerformLogin(t, call, wait) ==
    \E key \in { generatePrivateKey(publicKey, password, challenge) } :
        IF IsThrow(key)
        THEN /\ wait = 0
             /\ UNCHANGED << privateKey, compareTimeStamp, stamps, now, ticks, keySets >>
             /\ Finish(t, call, "performLogin", "error", key)
        ELSE /\ privateKey' = key
             /\ keySets' = keySets + 1
             /\ Transmit(t, call, "awaitLogin", "Login",
                         << << "Action", Lit("login") >>, << "Username", username >>,
                            << "LoginPassword", generateLoginPassword(key, challenge) >>,
                            << "Captcha", Lit("") >> >>,
                         key, wait)
             /\ done' = NoneDone

performLogin(t, wait) ==
    /\ Invoke(t)
    /\ PerformLogin(t, "performLogin", wait)
    /\ UNCHANGED << cookie, publicKey, challenge, dataCalls, chalLast, loginOk, codec >>

\* login() resumes after its requestLoginChallenge returned and calls
\* performLogin.
loginResume(t, wait) ==
    /\ tasks[t].pc = "challengeDone"
    /\ PerformLogin(t, "login", wait)
    /\ UNCHANGED << cookie, publicKey, challenge, calls, dataCalls, chalLast, loginOk,
                    codec >>

\* performLogin resumes with the transport's answer.
performLoginResume(t, resp) ==
    /\ tasks[t].pc = "awaitLogin"
    /\ LET result == Awaited[resp]
       IN  IF IsThrow(result)
           THEN /\ Finish(t, tasks[t].call, "performLogin", "error", result)
                /\ UNCHANGED loginOk
           ELSE IF Get(result, "LoginResult") # Lit("success")
           THEN /\ Finish(t, tasks[t].call, "performLogin", "error",
                          Error(<< "Login failed" >>))
                /\ UNCHANGED loginOk
           ELSE /\ Finish(t, tasks[t].call, "performLogin", "ok", Returns)
                /\ loginOk' = TRUE
    /\ UNCHANGED << privateKey, cookie, publicKey, challenge, compareTimeStamp, now,
                    ticks, calls, dataCalls, stamps, chalLast, keySets, codec >>

\* One of the five data operations up to its first await.
DataRequest(t, call, action, params, wait) ==
    /\ Invoke(t)
    /\ dataCalls < MaxData
    /\ dataCalls' = dataCalls + 1
    /\ Transmit(t, call, "awaitData", action, params, privateKey, wait)
    /\ done' = NoneDone
    /\ UNCHANGED << privateKey, cookie, publicKey, challenge, chalLast, loginOk, keySets,
                    codec >>

getDeviceSettings(t, wait) ==
    DataRequest(t, "getDeviceSettings", "GetDeviceSettings", << >>, wait)

getWanSettings(t, wait) ==
    DataRequest(t, "getWanSettings", "GetWanSettings", << >>, wait)

getWirelessSettings(t, radio, wait) ==
    DataRequest(t, "getWirelessSettings", "GetWLanRadioSettings",
                << << "RadioID", Lit(radio) >> >>, wait)

getConnectedClients(t, wait) ==
    DataRequest(t, "getConnectedClients", "GetClientInfo", << >>, wait)

reboot(t, wait) == DataRequest(t, "reboot", "Reboot", << >>, wait)

\* A data operation resumes with the transport's answer and returns the
\* parsed response.
DataResume(t, result) ==
    /\ tasks[t].pc = "awaitData"
    /\ IF IsThrow(result)
       THEN Finish(t, tasks[t].call, tasks[t].call, "error", result)
       ELSE Finish(t, tasks[t].call, tasks[t].call, "ok", Returns)
    /\ UNCHANGED << privateKey, cookie, publicKey, challenge, compareTimeStamp, now,
                    ticks, calls, dataCalls, stamps, chalLast, loginOk, keySets >>

dataResume(t, resp) == DataResume(t, Awaited[resp]) /\ UNCHANGED codec

Next ==
    \/ \E t \in Tasks, wait \in Waits : login(t, wait)
    \/ \E t \in Tasks, wait \in Waits : requestLoginChallenge(t, wait)
    \/ \E t \in Tasks, resp \in Responses : requestLoginChallengeResume(t, resp)
    \/ \E t \in Tasks, wait \in Waits : performLogin(t, wait)
    \/ \E t \in Tasks, wait \in Waits : loginResume(t, wait)
    \/ \E t \in Tasks, resp \in Responses : performLoginResume(t, resp)
    \/ \E t \in Tasks, wait \in Waits : getDeviceSettings(t, wait)
    \/ \E t \in Tasks, wait \in Waits : getWanSettings(t, wait)
    \/ \E t \in Tasks, radio \in Radios, wait \in Waits : getWirelessSettings(t, radio, wait)
    \/ \E t \in Tasks, wait \in Waits : getConnectedClients(t, wait)
    \/ \E t \in Tasks, wait \in Waits : reboot(t, wait)
    \/ \E t \in Tasks, resp \in Responses : dataResume(t, resp)

\* The client used through its operations.
Spec == Init /\ [][Next]_vars

\* --------------------------------------- responses of any shape to a data call
\* What can stand inside the root: a Body, with or without prefix, holding
\* a response element, or a Header.
Inner ==
    { El(prefix, "Body", << >>,
         << El("", "GetDeviceSettingsResponse", << "xmlns" >>,
               << Leaf("GetDeviceSettingsResult", << [c |-> "OK"] >>) >>,
               << >>) >>,
         << >>) : prefix \in { "", "soap" } }
    \cup { El("soap", "Header", << >>, << >>, << >>) }

\* The XML documents with up to MaxKids elements under a root named
\* soap:Envelope, Envelope or foo.
Documents ==
    { Document(El(name[1], name[2], << >>, kids, << >>)) :
        name \in { << "soap", "Envelope" >>, << "", "Envelope" >>, << "", "foo" >> },
        kids \in UNION { [1..n -> Inner] : n \in 0..MaxKids } }

\* A data operation resumes with the document the transport answered; the
\* document and what parseXmlResponse made of it are kept.
dataResumeDocument(t, doc) ==
    /\ DataResume(t, Await(doc))
    /\ codec' = [action |-> tasks[t].call, answer |-> doc,
                 result |-> parseXmlResponse(doc)]

\* One caller makes the data calls, one after the other.
NextParse ==
    \/ \E wait \in Waits : getDeviceSettings(1, wait)
    \/ \E wait \in Waits : getWanSettings(1, wait)
    \/ \E radio \in Radios, wait \in Waits : getWirelessSettings(1, radio, wait)
    \/ \E wait \in Waits : getConnectedClients(1, wait)
    \/ \E wait \in Waits : reboot(1, wait)
    \/ \E doc \in Documents : dataResumeDocument(1, doc)

\* The data operations of a fresh client, answered by any document.
SpecParse == Init /\ [][NextParse]_vars

\* ------------------------------------------------- the envelope codec alone
\* The actions and parameters of the client's own requests.
ActionNames == { "Login", "GetDeviceSettings", "GetWLanRadioSettings", "Reboot" }
ParamNames == { "Action", "Username", "RadioID" }
ParamValues == { Lit("request"), Lit("Admin") }

\* Object.entries(params) for the objects with up to MaxParams properties:
\* the names are distinct and come in insertion order.
ParamLists ==
    { params \in UNION { [1..n -> ParamNames \X ParamValues] : n \in 0..MaxParams } :
        \A i, j \in DOMAIN params : params[i][1] = params[j][1] => i = j }

\* A responder that answers a request envelope with the children of its
\* action element under one response element in the Body.
Echo(request) ==
    SoapResponse("EchoResponse", request.kids[1].kids[1].kids)

\* createSOAP builds an envelope, the responder echoes it and
\* parseXmlResponse parses the answer.
roundTrip(action, params) ==
    /\ codec' = [action |-> action, params |-> params,
                 built |-> createSOAP(action, params),
                 result |-> parseXmlResponse(Echo(createSOAP(action, params)))]
    /\ UNCHANGED << privateKey, cookie, publicKey, challenge, compareTimeStamp, now,
                    ticks, tasks, calls, dataCalls, done, stamps, chalLast, loginOk,
                    keySets >>

NextCodec == \E action \in ActionNames, params \in ParamLists : roundTrip(action, params)

\* Envelopes built and parsed back, whatever the state of the session.
SpecCodec == Init /\ [][NextCodec]_vars

\* ------------------------------------------- the timestamp generator alone
\* Date.now() at construction: the day above, and the two milliseconds
\* before the count of milliseconds carries into its upper part.
ClockStarts == { ClockStart, Ms(1793836, 999998), Ms(1793836, 999999) }

InitStamp ==
    /\ privateKey = Null
    /\ cookie = Null
    /\ publicKey = Null
    /\ challenge = Null
    /\ compareTimeStamp = Ms(0, 0)
    /\ now \in ClockStarts
    /\ ticks = 0
    /\ tasks = [t \in Tasks |-> Idle]
    /\ calls = 0
    /\ dataCalls = 0
    /\ done = NoneDone
    /\ stamps = << >>
    /\ chalLast = "none"
    /\ loginOk = FALSE
    /\ keySets = 0
    /\ codec = NoCodec

\* A caller asks the client for a timestamp, `wait` milliseconds after the
\* clock was last read.
callGetUniqueTimestamp(wait) ==
    /\ calls < MaxStamps
    /\ calls' = calls + 1
    /\ ReadClock(wait)
    /\ LET stamp == getUniqueTimestamp(now', compareTimeStamp)
       IN  /\ compareTimeStamp' = stamp.compareTimeStamp
           /\ stamps' = << stamp.returned >>
    /\ UNCHANGED << privateKey, cookie, publicKey, challenge, tasks, dataCalls, done,
                    chalLast, loginOk, keySets, codec >>

NextStamp == \E wait \in 0..1 : callGetUniqueTimestamp(wait)

\* getUniqueTimestamp called up to MaxStamps times on one client, the clock
\* standing still or advancing between the calls.
SpecStamp == InitStamp /\ [][NextStamp]_vars

\* ------------------------------------- the timestamp generator, any clock
\* What Date.now() can read when the clock is set between calls: three
\* milliseconds in a row of a day in 2026, the two milliseconds before
\* 2 x 10^12 and 2 x 10^12 itself, and the same readings 2 x 10^12 ms later.
Readings ==
    { Add(Ms(hi, lo), k) :
        hi \in { ClockStart.hi, ClockStart.hi + 2000000 }, lo \in { ClockStart.lo },
        k \in 0..2 }
    \cup { Add(Ms(hi, 999998), k) : hi \in { 1999999, 3999999 }, k \in 0..2 }

\* A caller asks the client for a timestamp when the clock reads `reading`,
\* which may be later than, equal to or earlier than the last reading.
callGetUniqueTimestampAt(reading) ==
    /\ calls < MaxStamps
    /\ calls' = calls + 1
    /\ now' = reading
    /\ LET stamp == getUniqueTimestamp(now', compareTimeStamp)
       IN  /\ compareTimeStamp' = stamp.compareTimeStamp
           /\ stamps' = << stamp.returned >>
    /\ UNCHANGED << privateKey, cookie, publicKey, challenge, ticks, tasks, dataCalls,
                    done, chalLast, loginOk, keySets, codec >>

NextAnyClock == \E reading \in Readings : callGetUniqueTimestampAt(reading)

\* getUniqueTimestamp called up to MaxStamps times on a fresh client, under
\* a clock that can be set forward and back between the calls.
SpecAnyClock == Init /\ [][NextAnyClock]_vars

\* ================================================================ properties
\* The request a caller has handed to the transport in this step.
Posted(t) == tasks'[t].posts = tasks[t].posts + 1

\* The text of parameter `key` in the body of a request.
Param(req, key) ==
    LET kids == req.body.kids[1].kids[1].kids
        hits == SelectSeq(kids, LAMBDA kid : kid.local = key)
    IN  IF hits = << >> THEN << >> ELSE hits[1].text

\* A Login request whose Action is "login".
IsLogin(req) == req.action = "Login" /\ Param(req, "Action") = << [c |-> "login"] >>

\* A field holds a non-empty string.
IsSet(v) == v.t = "string" /\ v.s # << >>

\* The uppercased keyed hash of `message` under `key`.
Keyed(key, message) == Str(<< [k |-> key, m |-> message, up |-> TRUE] >>)

\* The numeric order of decimal strings without leading zeros.
DigitOf(tok) == CHOOSE d \in 0..9 : ToString(d) = tok.c

RECURSIVE DecimalLess(_, _)
DecimalLess(a, b) ==
    IF Len(a) # Len(b) THEN Len(a) < Len(b)
    ELSE IF a = << >> THEN FALSE
    ELSE IF DigitOf(a[1]) # DigitOf(b[1]) THEN DigitOf(a[1]) < DigitOf(b[1])
    ELSE DecimalLess(Tail(a), Tail(b))

\* C1: under a clock that never goes backwards, every timestamp returned by
\* getUniqueTimestamp is strictly greater than the one returned by the call
\* before it, so none is returned twice.
C1_StrictlyIncreasing ==
    [][(stamps # << >> /\ calls' = calls + 1)
          => DecimalLess(stamps[1].s, stamps'[1].s)]_vars

\* C2: performLogin invoked while no requestLoginChallenge has completed
\* successfully (none called, or the last one threw) fails with an error and
\* hands no Login request with Action "login" to the transport.
C2_PerformLoginNeedsChallenge ==
    [][\A t \in Tasks :
          (chalLast # "ok"
             /\ \E wait \in Waits : (performLogin(t, wait) \/ loginResume(t, wait)))
          => /\ done'.method = "performLogin"
             /\ done'.outcome = "error"
             /\ ~Posted(t)]_vars

\* C3: on a response that parses, requestLoginChallenge fails exactly when
\* one of Challenge, Cookie, PublicKey is missing or empty; when all three are
\* non-empty it returns normally and the client's challenge, cookie and
\* publicKey are the three response values.
C3_ChallengeOutcome ==
    [][\A t \in Tasks, resp \in Responses :
          (/\ tasks[t].pc = "awaitChallenge"
           /\ tasks'[t].pc # "awaitChallenge"
           /\ ~IsThrow(Awaited[resp])
           /\ requestLoginChallengeResume(t, resp))
          => LET c == Get(Awaited[resp], "Challenge")
                 k == Get(Awaited[resp], "Cookie")
                 p == Get(Awaited[resp], "PublicKey")
                 lacking == \E v \in {c, k, p} : v = Undefined \/ v = Str(<< >>)
             IN  /\ done'.method = "requestLoginChallenge"
                 /\ (done'.outcome = "error") <=> lacking
                 /\ ~lacking => /\ done'.outcome = "ok"
                                /\ challenge' = c
                                /\ cookie' = k
                                /\ publicKey' = p]_vars

\* requestLoginChallenge returned normally with the router's second set of
\* nonces stored.
C3_Witness ==
    /\ done.method = "requestLoginChallenge"
    /\ done.call = "requestLoginChallenge"
    /\ done.outcome = "ok"
    /\ challenge = Str(Nonce("Challenge", 2))
    /\ cookie = Str(Nonce("Cookie", 2))
    /\ publicKey = Str(Nonce("PublicKey", 2))

\* C4: on a response that parses, performLogin returns normally exactly when
\* LoginResult is the string "success", fails for every other value and for a
\* missing field, and leaves the client holding a privateKey only when it
\* returned normally.
C4_LoginOutcome ==
    [][\A t \in Tasks, resp \in Responses :
          (performLoginResume(t, resp) /\ ~IsThrow(Awaited[resp]))
          => /\ done'.method = "performLogin"
             /\ (done'.outcome = "ok") <=> (Get(Awaited[resp], "LoginResult") = Lit("success"))
             /\ done'.outcome = "error" => privateKey' = Null]_vars

\* C5: while no performLogin has returned normally, privateKey is null and no
\* request in the hands of the transport carries HNAP_AUTH; so it is after a
\* performLogin that failed.
C5_NoKeyBeforeSuccess ==
    ~loginOk
    => /\ privateKey = Null
       /\ \A t \in Tasks :
             tasks[t].request # NoRequest
             => "HNAP_AUTH" \notin DOMAIN tasks[t].request.headers

\* C6: every request handed to the transport carries HNAP_AUTH exactly when
\* privateKey holds a key at that moment, and Cookie exactly when cookie holds
\* a non-empty string at that moment, its value then "uid=" followed by the
\* cookie; whether a login has succeeded plays no part.
C6_HeadersFollowFields ==
    [][\A t \in Tasks :
          Posted(t)
          => LET h == tasks'[t].request.headers
             IN  /\ ("HNAP_AUTH" \in DOMAIN h) <=> IsSet(privateKey')
                 /\ ("Cookie" \in DOMAIN h) <=> IsSet(cookie')
                 /\ ("Cookie" \in DOMAIN h)
                       => h["Cookie"] = Str(<< [c |-> "uid="] >> \o cookie'.s)]_vars

\* A request is with the transport that is signed and carries no cookie,
\* before any login has succeeded.
C6_Witness ==
    \E t \in Tasks :
        /\ tasks[t].request # NoRequest
        /\ "HNAP_AUTH" \in DOMAIN tasks[t].request.headers
        /\ "Cookie" \notin DOMAIN tasks[t].request.headers
        /\ ~loginOk

C9_AuthHeaderValue ==
    [][\A t \in Tasks :
          (Posted(t) /\ "HNAP_AUTH" \in DOMAIN tasks'[t].request.headers)
          => LET ts == NumToString(compareTimeStamp').s
                 uri == << [c |-> "\"http://purenetworks.com/HNAP1/"],
                           [c |-> tasks'[t].request.action], [c |-> "\""] >>
             IN  tasks'[t].request.headers["HNAP_AUTH"]
                    = Str(Keyed(privateKey'.s, ts \o uri).s \o << [c |-> " "] >> \o ts)]_vars

\* A signed data request is with the transport after a login that succeeded.
C9_Witness ==
    \E t \in Tasks :
        /\ tasks[t].pc = "awaitData"
        /\ "HNAP_AUTH" \in DOMAIN tasks[t].request.headers
        /\ loginOk

SingleOps ==
    { "requestLoginChallenge", "performLogin", "getDeviceSettings", "getWanSettings",
      "getWirelessSettings", "getConnectedClients", "reboot" }

\* What holds of every operation, whatever the number of its POSTs: a
\* transport or parse failure ends it with an error (an operation that goes on
\* or returns normally when its request is answered was given no failing
\* answer), nothing is sent twice, and login() sends its second request only
\* after its first step succeeded.
NoRetry ==
    /\ \A t \in Tasks :
          (/\ tasks[t].request.action # "none"
           /\ tasks'[t].request.action = "none"
           /\ ~(done'.outcome = "error" /\ done'.ended /\ tasks'[t].pc = "idle"))
          => \A resp \in Responses :
                IsThrow(Awaited[resp])
                => ~(\/ requestLoginChallengeResume(t, resp)
                     \/ performLoginResume(t, resp)
                     \/ dataResume(t, resp))
    /\ \A t \in Tasks :
          /\ tasks'[t].posts <= (IF tasks'[t].call = "login" THEN 2 ELSE 1)
          /\ (Posted(t) /\ tasks'[t].posts = 2)
                => /\ tasks[t].pc = "challengeDone"
                   /\ IsLogin(tasks'[t].request)
    /\ (done'.method # "none" /\ done'.call = "login")
          => /\ done'.posts \in 1..2
             /\ (done'.method = "requestLoginChallenge" /\ done'.outcome = "error")
                   => (done'.posts = 1 /\ done'.ended)

Phase ==
    IF loginOk /\ IsSet(privateKey) THEN 3
    ELSE IF IsSet(challenge) /\ IsSet(cookie) /\ IsSet(publicKey) THEN 2
    ELSE 1

\* C11: the session phase never moves backward, whatever operation runs and
\* however it ends.
C11_PhaseNeverBackward == [][Phase' >= Phase]_vars

\* challenge, cookie and publicKey are all unset or all non-empty.
AllOrNone ==
    \/ ~IsSet(challenge) /\ ~IsSet(cookie) /\ ~IsSet(publicKey)
    \/ IsSet(challenge) /\ IsSet(cookie) /\ IsSet(publicKey)

\* C12: challenge, cookie and publicKey are at all times all unset or all
\* non-empty; a requestLoginChallenge that fails leaves no part of its
\* response behind, so no request sent afterwards carries a Cookie header or
\* a key made from it.
C12_FieldsAllOrNone ==
    [][/\ AllOrNone'
       /\ \A t \in Tasks :
             (Posted(t) /\ ~AllOrNone)
             => /\ "Cookie" \notin DOMAIN tasks'[t].request.headers
                /\ ~IsLogin(tasks'[t].request)]_vars

\* C13: after a requestLoginChallenge that returned normally, and until the
\* next one, privateKey is assigned at most once, so a repeated performLogin
\* does not derive it again from the challenge already used; and only
\* requestLoginChallenge changes challenge and publicKey.
C13_KeySetOncePerHandshake ==
    [][/\ chalLast' = "ok" => keySets' <= 1
       /\ (challenge' # challenge \/ publicKey' # publicKey)
             => done'.method = "requestLoginChallenge"]_vars

\* The timestamp that follows the space in an HNAP_AUTH value.
AuthTimestamp(h) == SubSeq(h["HNAP_AUTH"].s, 3, Len(h["HNAP_AUTH"].s))

\* C14: generating a timestamp and handing the request signed with it to the
\* transport are one step of one caller, whatever is in flight: a step that
\* generates a timestamp hands over exactly the request that carries it, a
\* step hands over at most one request, and a signed request carries the
\* timestamp generated in its own step; so signed requests reach the
\* transport in the order of their timestamps' generation.
C14_TimestampAndSendAtomic ==
    [][/\ compareTimeStamp' # compareTimeStamp
          => \E t \in Tasks :
                /\ Posted(t)
                /\ "HNAP_AUTH" \in DOMAIN tasks'[t].request.headers
                /\ AuthTimestamp(tasks'[t].request.headers) = NumToString(compareTimeStamp').s
       /\ \A t \in Tasks :
             Posted(t)
             => /\ \A u \in Tasks \ {t} : tasks'[u] = tasks[u]
                /\ "HNAP_AUTH" \in DOMAIN tasks'[t].request.headers
                      => /\ compareTimeStamp' # compareTimeStamp
                         /\ AuthTimestamp(tasks'[t].request.headers)
                               = NumToString(compareTimeStamp').s]_vars

\* Two callers have signed requests with the transport at the same time, the
\* later one carrying the timestamp stored last.
C14_Witness ==
    \E t, u \in Tasks :
        /\ t # u
        /\ tasks[t].request # NoRequest
        /\ tasks[u].request # NoRequest
        /\ "HNAP_AUTH" \in DOMAIN tasks[t].request.headers
        /\ "HNAP_AUTH" \in DOMAIN tasks[u].request.headers
        /\ AuthTimestamp(tasks[u].request.headers) = NumToString(compareTimeStamp).s
        /\ AuthTimestamp(tasks[t].request.headers) # AuthTimestamp(tasks[u].request.headers)

\* The root of the document, its prefix stripped, is not Envelope, or no
\* element under the root is a Body.
Malformed(doc) ==
    \/ stripPrefix(doc.root) # "Envelope"
    \/ \A i \in DOMAIN doc.root.kids : stripPrefix(doc.root.kids[i]) # "Body"

InvalidSoap ==
    Error(<< "XML parsing failed: ", "Invalid SOAP response: Envelope or Body not found" >>)

\* C15: parseXmlResponse, given a document whose root is not Envelope once
\* the prefix is stripped, or whose Envelope holds no Body, throws an Error
\* and returns no value; the operation that received the document, when it
\* ends, ends by throwing an Error and returns nothing.
C15_MalformedEnvelopeFails ==
    (codec # NoCodec /\ Malformed(codec.answer))
        => /\ codec.result = InvalidSoap
           /\ done # NoneDone
                 => /\ done.method = codec.action
                    /\ done.outcome = "error"
                    /\ done.error = "Error"
                    /\ done.ended

\* A data operation has ended on an Envelope that holds a Header only.
C15_Witness ==
    /\ codec # NoCodec
    /\ stripPrefix(codec.answer.root) = "Envelope"
    /\ Len(codec.answer.root.kids) = 1
    /\ stripPrefix(codec.answer.root.kids[1]) = "Header"
    /\ done.outcome = "error"

\* The parameter elements of a built envelope are the parameters, in order.
EmitsInOrder ==
    LET kids == codec.built.kids[1].kids[1].kids
    IN  /\ Len(kids) = Len(codec.params)
        /\ \A i \in DOMAIN kids :
              /\ kids[i].local = codec.params[i][1]
              /\ kids[i].text = codec.params[i][2].s

\* The parsed answer is a mapping of exactly the parameter names, each to
\* its value.
RoundTrips ==
    /\ codec.result.t = "object"
    /\ codec.result.keys = [i \in DOMAIN codec.params |-> codec.params[i][1]]
    /\ \A i \in DOMAIN codec.params :
          codec.result.vals[codec.params[i][1]] = codec.params[i][2]

DataOps ==
    { "getDeviceSettings", "getWanSettings", "getWirelessSettings", "getConnectedClients",
      "reboot" }

\* C17: a request sent while privateKey is set comes with exactly one run of
\* getUniqueTimestamp (compareTimeStamp is what one run on the clock reading
\* stores, and the value it returned is the one generated); a request sent
\* while privateKey is not set comes with none (compareTimeStamp and the
\* last generated value stay as they were); and no step of a data operation
\* changes privateKey, cookie, publicKey or challenge, nor, unless it sends
\* the request, compareTimeStamp.
C17_OneTimestampPerSignedRequest ==
    [][\A t \in Tasks :
          /\ Posted(t)
                => IF IsSet(privateKey')
                   THEN LET stamp == getUniqueTimestamp(now', compareTimeStamp)
                        IN  /\ compareTimeStamp' = stamp.compareTimeStamp
                            /\ stamps' = << stamp.returned >>
                   ELSE /\ compareTimeStamp' = compareTimeStamp
                        /\ stamps' = stamps
          /\ (/\ tasks[t].call \in DataOps \/ tasks'[t].call \in DataOps
              /\ tasks'[t].pc # tasks[t].pc)
                => /\ UNCHANGED << privateKey, cookie, publicKey, challenge >>
                   /\ ~Posted(t) => compareTimeStamp' = compareTimeStamp]_vars

\* A data operation has sent its request signed, and the timestamp stored is
\* the one generated for it.
C17_Witness ==
    \E t \in Tasks :
        /\ tasks[t].call \in DataOps
        /\ tasks[t].pc = "awaitData"
        /\ "HNAP_AUTH" \in DOMAIN tasks[t].request.headers
        /\ IsSet(privateKey)
        /\ stamps = << NumToString(compareTimeStamp) >>

\* The string starts and ends with a double quote.
Quoted(v) ==
    /\ v.s # << >>
    /\ v.s[1] = [c |-> "\"http://purenetworks.com/HNAP1/"]
    /\ v.s[Len(v.s)] = [c |-> "\""]

\* C18: in a request that carries HNAP_AUTH, the text signed after the
\* timestamp is the value of the request's SOAPAction header, quotes
\* included, and the timestamp after the space is compareTimeStamp as
\* stored when the header was generated.
C18_SignedActionIsHeader ==
    [][\A t \in Tasks :
          (Posted(t) /\ "HNAP_AUTH" \in DOMAIN tasks'[t].request.headers)
          => LET h == tasks'[t].request.headers
                 ts == NumToString(compareTimeStamp').s
             IN  /\ Quoted(h["SOAPAction"])
                 /\ h["HNAP_AUTH"].s[1]
                        = Keyed(privateKey'.s, ts \o h["SOAPAction"].s).s[1]
                 /\ h["HNAP_AUTH"].s[2] = [c |-> " "]
                 /\ AuthTimestamp(h) = ts]_vars

\* The signed Login request of performLogin is with the transport, its
\* timestamp the one stored.
C18_Witness ==
    \E t \in Tasks :
        /\ tasks[t].pc # "idle"
        /\ tasks[t].request # NoRequest
        /\ tasks[t].request.action = "Login"
        /\ "HNAP_AUTH" \in DOMAIN tasks[t].request.headers
        /\ Quoted(tasks[t].request.headers["SOAPAction"])
        /\ AuthTimestamp(tasks[t].request.headers) = NumToString(compareTimeStamp).s

\* C19: the value getUniqueTimestamp returns is the decimal form of the
\* clock reading modulo 2 x 10^12, plus 1 exactly when the reading modulo
\* 2 x 10^12 equals the value stored by the call before, and it differs from
\* the value the call before returned, whether the clock reads the same,
\* more or less than at that call.
C19_ConsecutiveDiffer ==
    [][/\ stamps' = << NumToString(IF ModTs(now') = compareTimeStamp
                                   THEN Inc(ModTs(now'))
                                   ELSE ModTs(now')) >>
       /\ stamps # << >> => stamps'[1] # stamps[1]]_vars

\* A call has returned the reading plus 1, the clock having read the same
\* as at the call before; at least two calls were made.
C19_Witness ==
    /\ calls >= 2
    /\ compareTimeStamp = Inc(ModTs(now))
    /\ stamps = << NumToString(Inc(ModTs(now))) >>

\* C20: the Login request that login() sends after its own
\* requestLoginChallenge returned carries the cookie of the answer that
\* requestLoginChallenge received, and the LoginPassword derived from the
\* Challenge and PublicKey of that answer, whatever the other callers did
\* in between.
C20_LoginUsesOwnChallenge ==
    [][\A t \in Tasks :
          (tasks[t].pc = "challengeDone" /\ Posted(t))
          => LET own == Awaited[tasks[t].answer]
                 key == generatePrivateKey(Get(own, "PublicKey"), password,
                                           Get(own, "Challenge"))
             IN  /\ "Cookie" \in DOMAIN tasks'[t].request.headers
                 /\ tasks'[t].request.headers["Cookie"]
                        = Str(<< [c |-> "uid="] >> \o Get(own, "Cookie").s)
                 /\ Str(Param(tasks'[t].request, "LoginPassword"))
                        = generateLoginPassword(key, Get(own, "Challenge"))]_vars

====
